---- MODULE Spec2Model ----
(***************************************************************************)
(* Model of the ansible audit-log callback plugins                         *)
(*   src/auditlog.py   (ansible 1.x callback, "v1")                        *)
(*   src/auditlog2.py  (ansible 2.1+ callback, "v2")                       *)
(*                                                                         *)
(* Python values are tagged records, one field name per Python type, so    *)
(* that values of different types can be compared:                         *)
(*   None  [t |-> "none"]          int   [t |-> "int",  n |-> 1]            *)
(*   str   [t |-> "str", s |-> ..] bool  [t |-> "bool", b |-> TRUE]         *)
(*   dict  [t |-> "dict", d |-> function from keys to values]              *)
(*   list  [t |-> "list", l |-> sequence of values]                        *)
(*   obj   [t |-> "obj",  o |-> name]   an object json cannot serialize    *)
(* A raised exception is [t |-> "raise", exc |-> type, ...].               *)
(* The strings the code splits or filters character by character (dotted   *)
(* paths, the raw ANSIBLE_AUDITLOG_AUDIT_VARS value) are sequences of      *)
(* one-character strings.                                                  *)
(***************************************************************************)
EXTENDS Integers, Sequences, FiniteSets, TLC

VARIABLES
    variant,      \* "v1": src/auditlog.py, "v2": src/auditlog2.py
    env,          \* the process environment read by CallbackModule.__init__
    dirMode,      \* state of the log directory: "rw", "denied", "missing", "full"
    files,        \* the files of the log directory: file name -> sequence of lines
    fsWrites,     \* number of file-system writes made so far (probe creations and appends)
    now,          \* the local clock read by datetime.datetime.now()
    pc,           \* "uninit", "ready" (plugin constructed), "exited" (sys.exit called)
    exitStatus,   \* the status passed to sys.exit, -1 while the process lives
    self,         \* the attributes of the CallbackModule instance
    writer,       \* the JsonAuditLogger object last constructed (also when __init__ raised)
    ctorError,    \* the exception JsonAuditLogger.__init__ raised, or NoError
    warnings,     \* messages sent through the warning channel
    stdout,       \* lines printed
    lastOutcome,  \* what the last handler (or log call) did: returned or raised
    lastCall,     \* the last JsonAuditLogger.log call: arguments, timestamp, result
    nLogOk,       \* number of log calls that returned normally
    notif,        \* the last notification handled: name and the inputs it carried
    phase,        \* the host runtime's run: "new", "running", "finished"
    lastPlayVars, \* the variable mapping the last non-empty play-start resolved against
    rd,           \* get_dotted_val_in_dict under test: the mapping
    rkeys,        \* ... the dotted path
    rret          \* ... the returned value or raised exception, NotCalled before the call

vars == <<variant, env, dirMode, files, fsWrites, now, pc, exitStatus, self, writer,
          ctorError, warnings, stdout, lastOutcome, lastCall, nLogOk, notif, phase, lastPlayVars,
          rd, rkeys, rret>>

(***************************************************************************)
(* Bounds                                                                  *)
(***************************************************************************)
MaxLines == 3      \* records per run of the plugin
MaxCalls == 2      \* successful log calls on a writer used directly
MaxClock == 1      \* clock ticks per run
MaxPathLen == 5    \* characters of a dotted path under test
MaxRawLen == 3     \* characters of a raw ANSIBLE_AUDITLOG_AUDIT_VARS setting

(***************************************************************************)
(* Python values                                                           *)
(***************************************************************************)
VNone == [t |-> "none"]
VInt(n) == [t |-> "int", n |-> n]
VStr(s) == [t |-> "str", s |-> s]
VBool(b) == [t |-> "bool", b |-> b]
VDict(f) == [t |-> "dict", d |-> f]
VList(q) == [t |-> "list", l |-> q]
VObj(o) == [t |-> "obj", o |-> o]
Raise(exc) == [t |-> "raise", exc |-> exc]
EmptyDict == VDict(<<>>)

isinstance_dict(v) == v.t = "dict"

\* bool(v): Python truth value
Truthy(v) ==
    CASE v.t = "none" -> FALSE
      [] v.t = "int"  -> v.n # 0
      [] v.t = "str"  -> v.s # ""
      [] v.t = "bool" -> v.b
      [] v.t = "dict" -> DOMAIN v.d # {}
      [] v.t = "list" -> Len(v.l) > 0
      [] OTHER        -> TRUE

\* d.get(key, default) on a dict value
DictGet(d, key, default) == IF key \in DOMAIN d.d THEN d.d[key] ELSE default

(***************************************************************************)
(* Character strings                                                       *)
(***************************************************************************)
\* index of the first occurrence of character c in s, 0 when there is none
RECURSIVE FindFrom(_, _, _)
FindFrom(s, c, i) ==
    IF i > Len(s) THEN 0
    ELSE IF s[i] = c THEN i
    ELSE FindFrom(s, c, i + 1)

Find(s, c) == FindFrom(s, c, 1)

\* c in s
Contains(s, c) == Find(s, c) # 0

\* s.split(c, 1) when c occurs in s: the parts before and after the first c
SplitFirst(s, c) ==
    LET i == Find(s, c)
    IN <<SubSeq(s, 1, i - 1), SubSeq(s, i + 1, Len(s))>>

\* s.split(c): all the pieces
RECURSIVE Split(_, _)
Split(s, c) ==
    IF ~Contains(s, c) THEN <<s>>
    ELSE <<SplitFirst(s, c)[1]>> \o Split(SplitFirst(s, c)[2], c)

(***************************************************************************)
(* get_dotted_val_in_dict                                                  *)
(***************************************************************************)
\* The recursion without the isinstance test: descends into whatever value the
\* segment holds.
RECURSIVE get_dotted_val_unchecked(_, _)
get_dotted_val_unchecked(d, keys) ==
    IF ~isinstance_dict(d) THEN Raise("AttributeError")
    ELSE IF Contains(keys, ".") THEN
        LET key  == SplitFirst(keys, ".")[1]
            rest == SplitFirst(keys, ".")[2]
            dval == DictGet(d, key, EmptyDict)
        IN get_dotted_val_unchecked(dval, rest)
    ELSE IF Truthy(DictGet(d, keys, VNone)) THEN d.d[keys]
    ELSE VNone

\* d.get on a value that is no dict raises AttributeError; a function that falls
\* off its end returns None.
RECURSIVE get_dotted_val_in_dict(_, _)
get_dotted_val_in_dict(d, keys) ==
    IF ~isinstance_dict(d) THEN Raise("AttributeError")
    ELSE IF Contains(keys, ".") THEN
        LET key  == SplitFirst(keys, ".")[1]
            rest == SplitFirst(keys, ".")[2]
            dval == DictGet(d, key, EmptyDict)
        IN IF isinstance_dict(dval) THEN get_dotted_val_in_dict(dval, rest)
           ELSE VNone
    ELSE IF Truthy(DictGet(d, keys, VNone)) THEN d.d[keys]
    ELSE VNone

(***************************************************************************)
(* The file system and the clock                                           *)
(***************************************************************************)
DirModes == {"rw", "denied", "missing", "full"}

\* errno of any attempt to create or open a file in a directory of this mode
ErrnoOf(mode) ==
    CASE mode = "denied"  -> "EACCES"
      [] mode = "missing" -> "ENOENT"
      [] mode = "full"    -> "ENOSPC"
      [] OTHER            -> "OK"

\* tempfile.TemporaryFile(dir=path): creates and unlinks a file in path, or raises
\* OSError naming the file it tried to create.
TemporaryFile(path, mode) ==
    IF mode = "rw" THEN [t |-> "file"]
    ELSE [t |-> "raise", exc |-> "OSError", errno |-> ErrnoOf(mode),
          filename |-> <<path, "tmpfile">>]

\* os.path.join(logdir, "{}.log".format(uuid))
LogfilePath(logdir, uuid) == <<logdir, uuid, ".log">>

NoError == [t |-> "none"]
NoLogfile == [set |-> FALSE]

(***************************************************************************)
(* JsonAuditLogger                                                         *)
(***************************************************************************)
\* isWritable without the errno test: every OSError propagates.
isWritableNoErrnoTest(path, mode) ==
    LET testfile == TemporaryFile(path, mode)
    IN IF testfile.t = "raise" THEN [testfile EXCEPT !.filename = <<path>>]
       ELSE VBool(TRUE)

\* isWritable that leaves the exception as the OS raised it.
isWritableKeepFilename(path, mode) ==
    LET testfile == TemporaryFile(path, mode)
    IN IF testfile.t = "raise"
       THEN IF testfile.errno = "EACCES" THEN VBool(FALSE) ELSE testfile
       ELSE VBool(TRUE)

\* isWritable(path): True, False (EACCES), or the OSError with filename set to path
isWritable(path, mode) ==
    LET testfile == TemporaryFile(path, mode)
    IN IF testfile.t = "raise"
       THEN IF testfile.errno = "EACCES" THEN VBool(FALSE)
            ELSE [testfile EXCEPT !.filename = <<path>>]
       ELSE VBool(TRUE)

\* JsonAuditLogger.__init__(logdir) with the generated uuid u and hostname h:
\* the object as it is when __init__ ends, and the exception it raised (NoError
\* when it returned).
JsonAuditLogger_init(logdir, u, h, mode) ==
    LET w0 == [uuid |-> u, hostname |-> h, logfile |-> NoLogfile]
        ok == isWritable(logdir, mode)
    IN IF ok.t = "raise" THEN [obj |-> w0, err |-> ok]
       ELSE IF ~ok.b
            THEN [obj |-> w0,
                  err |-> [t |-> "raise", exc |-> "Exception",
                           msg |-> <<"Access denied to ", logdir>>]]
       ELSE [obj |-> [w0 EXCEPT !.logfile =
                         [set |-> TRUE, path |-> LogfilePath(logdir, u)]],
             err |-> NoError]

EnvelopeKeys == {"event", "timestamp", "controlhost", "uuid"}

\* log_entry[k] = v
DictSet(f, k, v) == [x \in DOMAIN f \cup {k} |-> IF x = k THEN v ELSE f[x]]

\* a merge that keeps what the caller supplied
DictSetDefault(f, k, v) == IF k \in DOMAIN f THEN f ELSE DictSet(f, k, v)

\* The four assignments of log() with the caller's keys taking precedence.
StampCallerWins(log_entry, event_id, ts, w) ==
    DictSetDefault(
      DictSetDefault(
        DictSetDefault(
          DictSetDefault(log_entry, "event", VStr(event_id)),
          "timestamp", [t |-> "isostr", at |-> ts]),
        "controlhost", VStr(w.hostname)),
      "uuid", VStr(w.uuid))

\* The four assignments of log() with a run id made per call.
StampFreshUuid(log_entry, event_id, ts, w) ==
    DictSet(
      DictSet(
        DictSet(
          DictSet(log_entry, "event", VStr(event_id)),
          "timestamp", [t |-> "isostr", at |-> ts]),
        "controlhost", VStr(w.hostname)),
      "uuid", [t |-> "isostr", at |-> ts])

\* The four assignments at the start of log(): the envelope, written over
\* whatever log_entry held. The timestamp is the isoformat text of the clock.
Stamp(log_entry, event_id, ts, w) ==
    DictSet(
      DictSet(
        DictSet(
          DictSet(log_entry, "event", VStr(event_id)),
          "timestamp", [t |-> "isostr", at |-> ts]),
        "controlhost", VStr(w.hostname)),
      "uuid", VStr(w.uuid))

\* The keys a record can hold, in the order sort_keys=True writes them
\* (byte order: upper case before lower case).
KeyOrder ==
    <<"SUDO_USER", "USER", "audit_vars", "automation_on_behalf_of", "become",
      "become_method", "become_user", "check_mode", "controlhost", "event",
      "hosts", "ignore_errors", "inventory", "inventory_host", "logname",
      "max_fail_percentage", "module_name", "msg", "name", "only_tags",
      "options", "playbook", "realuser", "remote_user", "serial", "skip_tags",
      "stats", "status", "su", "su_user", "sudo", "sudo_user", "timestamp",
      "uuid">>

AllKeys == {KeyOrder[i] : i \in 1..Len(KeyOrder)}

\* whether json.dumps can serialize the value
RECURSIVE JsonSerializable(_)
JsonSerializable(v) ==
    CASE v.t = "dict" -> \A k \in DOMAIN v.d : JsonSerializable(v.d[k])
      [] v.t = "list" -> \A i \in 1..Len(v.l) : JsonSerializable(v.l[i])
      [] v.t = "obj"  -> FALSE
      [] OTHER        -> TRUE

\* the keys of KeyOrder from position i on that are keys of f, with their values
RECURSIVE SortedItems(_, _)
SortedItems(f, i) ==
    IF i > Len(KeyOrder) THEN <<>>
    ELSE IF KeyOrder[i] \in DOMAIN f
         THEN <<<<KeyOrder[i], f[KeyOrder[i]]>>>> \o SortedItems(f, i + 1)
    ELSE SortedItems(f, i + 1)

\* json.dumps(log_entry, sort_keys=True): the text of one JSON object, as the
\* sequence of its members in key order, or TypeError.
JsonDumps(log_entry) ==
    IF \A k \in DOMAIN log_entry : JsonSerializable(log_entry[k])
    THEN [t |-> "json", members |-> SortedItems(log_entry, 1)]
    ELSE Raise("TypeError")

\* json.loads of one line: the object it denotes
JsonLoads(line) ==
    [k \in {line.members[i][1] : i \in 1..Len(line.members)} |->
        LET i == CHOOSE j \in 1..Len(line.members) : line.members[j][1] = k
        IN line.members[i][2]]

\* the content of the file at path, <<>> when there is none
Content(fls, path) == IF path \in DOMAIN fls THEN fls[path] ELSE <<>>

\* with open(path, 'a') as f: f.write(data + '\n') written as open(path, 'w')
WriteTruncating(fls, path, data, mode) ==
    IF mode = "rw"
    THEN [err |-> NoError,
          files |-> [p \in DOMAIN fls \cup {path} |->
                        IF p = path THEN <<data>> ELSE fls[p]]]
    ELSE [err |-> [t |-> "raise", exc |-> "IOError", errno |-> ErrnoOf(mode),
                   filename |-> path],
          files |-> fls]

\* the line written at the start of the file instead of its end
WriteAtStart(fls, path, data, mode) ==
    IF mode = "rw"
    THEN [err |-> NoError,
          files |-> [p \in DOMAIN fls \cup {path} |->
                        IF p = path THEN <<data>> \o Content(fls, path)
                        ELSE fls[p]]]
    ELSE [err |-> [t |-> "raise", exc |-> "IOError", errno |-> ErrnoOf(mode),
                   filename |-> path],
          files |-> fls]

\* with open(path, 'a') as f: f.write(data + '\n'): the files afterwards and the
\* exception raised. The file is created when absent; its lines are kept.
AppendLine(fls, path, data, mode) ==
    IF mode = "rw"
    THEN [err |-> NoError,
          files |-> [p \in DOMAIN fls \cup {path} |->
                        IF p = path THEN Append(Content(fls, path), data)
                        ELSE fls[p]]]
    ELSE [err |-> [t |-> "raise", exc |-> "IOError", errno |-> ErrnoOf(mode),
                   filename |-> path],
          files |-> fls]

\* log() that opens the logfile before it serializes the record
JsonAuditLogger_logOpensFirst(w, event_id, log_entry, ts, fls, mode) ==
    LET entry  == Stamp(log_entry, event_id, ts, w)
        data   == JsonDumps(entry)
        path   == w.logfile.path
        opened == [p \in DOMAIN fls \cup {path} |-> Content(fls, path)]
    IN IF mode # "rw"
       THEN [err |-> AppendLine(fls, path, data, mode).err, files |-> fls,
             entry |-> entry]
       ELSE IF data.t = "raise"
            THEN [err |-> data, files |-> opened, entry |-> entry]
       ELSE [err |-> NoError, files |-> AppendLine(fls, path, data, mode).files,
             entry |-> entry]

\* JsonAuditLogger.log(event_id, log_entry) on writer w at clock ts: the exception
\* raised (NoError when it returned), the files afterwards, and log_entry as the
\* call leaves it (the dict is updated in place before anything can fail).
JsonAuditLogger_log(w, event_id, log_entry, ts, fls, mode) ==
    LET entry == Stamp(log_entry, event_id, ts, w)
        data  == JsonDumps(entry)
    IN IF data.t = "raise"
       THEN [err |-> data, files |-> fls, entry |-> entry]
       ELSE [err |-> AppendLine(fls, w.logfile.path, data, mode).err,
             files |-> AppendLine(fls, w.logfile.path, data, mode).files,
             entry |-> entry]

(***************************************************************************)
(* Inputs                                                                  *)
(***************************************************************************)
Unset == [set |-> FALSE]
EnvVal(v) == [set |-> TRUE, v |-> v]

DefaultLogdir == "/var/log/ansible"
LogDirs == {DefaultLogdir, "/srv/audit"}
UUIDs == {"u1", "u2"}
\* the run id of a run of the plugin
RunUUIDs == {"u1"}
Hostnames == {"ctl1"}

\* partial functions from K to V
PartialFns(K, V) == UNION {[D -> V] : D \in SUBSET K}

NoEnv ==
    [DISABLED |-> Unset, LOGNAME_ENABLED |-> Unset, LOGDIR |-> Unset,
     AUDIT_VARS |-> Unset, FAILMODE |-> Unset]

BlankSelf ==
    [disabled |-> FALSE, log_logname |-> FALSE,
     has_audit_vars |-> FALSE, audit_vars |-> <<>>,
     has_logger |-> FALSE,
     has_my_vars |-> FALSE, my_vars |-> EmptyDict,
     has_play_context |-> FALSE, play_context |-> <<>>,
     playbook |-> ""]

NoWriter == [uuid |-> "", hostname |-> "", logfile |-> NoLogfile]
\* no call yet; flip changes with every call of log, so that a call repeated
\* with the same arguments and result is still seen
NoCall == [made |-> FALSE, flip |-> FALSE]
NoNotif == [name |-> "none"]
NotCalled == [t |-> "notcalled"]

(***************************************************************************)
(* Steps shared by the specifications                                      *)
(***************************************************************************)
\* the probe opened as a named file that nobody removes
ProbeLeftBehind(fls, path, mode) ==
    IF TemporaryFile(path, mode).t = "file"
    THEN [p \in DOMAIN fls \cup {<<path, "tmpfile">>} |->
             IF p = <<path, "tmpfile">> THEN <<>> ELSE fls[p]]
    ELSE fls

\* the files of the directory after testfile = tempfile.TemporaryFile(dir=path);
\* testfile.close(): the probe file is created and is gone once closed
ProbeClosed(fls, path, mode) ==
    IF TemporaryFile(path, mode).t = "file"
    THEN LET created == [p \in DOMAIN fls \cup {<<path, "tmpfile">>} |->
                            IF p = <<path, "tmpfile">> THEN <<>> ELSE fls[p]]
         IN [p \in DOMAIN created \ {<<path, "tmpfile">>} |-> created[p]]
    ELSE fls

\* self.logger = JsonAuditLogger(logdir): the object, the exception, the probe
Construct(logdir, u, h) ==
    \E r \in {JsonAuditLogger_init(logdir, u, h, dirMode)} :
       /\ writer' = r.obj
       /\ ctorError' = r.err
       /\ files' = ProbeClosed(files, logdir, dirMode)
       /\ fsWrites' = IF TemporaryFile(logdir, dirMode).t = "file"
                      THEN fsWrites + 1 ELSE fsWrites

\* one call writer.log(event_id, log_entry), with what it returned or raised
LogCall(event_id, log_entry) ==
    \E r \in {JsonAuditLogger_log(writer, event_id, log_entry, now, files, dirMode)} :
       /\ files' = r.files
       /\ fsWrites' = IF r.files # files THEN fsWrites + 1 ELSE fsWrites
       /\ nLogOk' = IF r.err = NoError THEN nLogOk + 1 ELSE nLogOk
       /\ lastOutcome' = r.err
       /\ lastCall' = [made |-> TRUE, flip |-> ~lastCall.flip,
                       event_id |-> event_id, arg |-> log_entry,
                       argAfter |-> r.entry, ts |-> now, err |-> r.err]

\* datetime.datetime.now() advances
Tick ==
    /\ now < MaxClock
    /\ now' = now + 1
    /\ UNCHANGED <<variant, env, dirMode, files, fsWrites, pc, exitStatus, self,
                   writer, ctorError, warnings, stdout, lastOutcome, lastCall,
                   nLogOk, notif, phase, lastPlayVars, rd, rkeys, rret>>

\* access to the log directory is revoked while the run goes on
RevokeAccess ==
    /\ pc = "ready"
    /\ dirMode = "rw"
    /\ dirMode' = "denied"
    /\ notif' = [name |-> "chmod"]
    /\ UNCHANGED <<variant, env, files, fsWrites, now, pc, exitStatus, self,
                   writer, ctorError, warnings, stdout, lastOutcome, lastCall,
                   nLogOk, phase, lastPlayVars, rd, rkeys, rret>>

(***************************************************************************)
(* SpecLogger: JsonAuditLogger used directly                               *)
(***************************************************************************)
LoggerEvents == {"e1", "e2"}

\* mappings a caller may pass to log(): any of the envelope keys and msg, and
\* one holding an object json cannot serialize
CallerEntries ==
    {f \in PartialFns(EnvelopeKeys \cup {"msg"}, {VStr("caller")}) :
        Cardinality(DOMAIN f) \in {0, 1, 5}}
        \cup {[k \in {"msg"} |-> VObj("object")]}

InitCommon ==
    /\ files = <<>>
    /\ fsWrites = 0
    /\ now = 0
    /\ pc = "uninit"
    /\ exitStatus = -1
    /\ self = BlankSelf
    /\ writer = NoWriter
    /\ ctorError = NoError
    /\ warnings = <<>>
    /\ stdout = <<>>
    /\ lastOutcome = NoError
    /\ lastCall = NoCall
    /\ nLogOk = 0
    /\ notif = NoNotif
    /\ phase = "new"
    /\ lastPlayVars = NotCalled

InitLogger ==
    /\ InitCommon
    /\ variant = "v1"
    /\ env = NoEnv
    /\ dirMode \in DirModes
    /\ rd = EmptyDict /\ rkeys = <<>> /\ rret = NotCalled

\* w = JsonAuditLogger(logdir)
NewJsonAuditLogger ==
    /\ pc = "uninit"
    /\ \E logdir \in LogDirs, u \in UUIDs, h \in Hostnames :
          /\ Construct(logdir, u, h)
          /\ notif' = [name |-> "JsonAuditLogger", logdir |-> logdir]
    /\ pc' = IF ctorError' = NoError THEN "ready" ELSE "failed"
    /\ lastOutcome' = ctorError'
    /\ UNCHANGED <<variant, env, dirMode, now, exitStatus, self, warnings,
                   stdout, lastCall, nLogOk, phase, lastPlayVars, rd, rkeys, rret>>

\* w.log(event_id, log_entry)
CallLog ==
    /\ pc = "ready"
    /\ nLogOk < MaxCalls
    /\ \E e \in LoggerEvents, f \in CallerEntries :
          /\ LogCall(e, f)
          /\ notif' = [name |-> "log", event_id |-> e]
    /\ UNCHANGED <<variant, env, dirMode, now, pc, exitStatus, self, writer,
                   ctorError, warnings, stdout, phase, lastPlayVars, rd, rkeys, rret>>

NextLogger == NewJsonAuditLogger \/ CallLog \/ Tick \/ RevokeAccess

SpecLogger == InitLogger /\ [][NextLogger]_vars

(***************************************************************************)
(* SpecResolve: get_dotted_val_in_dict on bounded inputs                   *)
(***************************************************************************)
PathChars == {"a", "b", "."}
Paths == UNION {[1..n -> PathChars] : n \in 0..MaxPathLen}

SegKeys == {<<"a">>, <<"b">>}
Leaves == {VInt(0), VInt(1)}
Level0 == {VDict(f) : f \in PartialFns(SegKeys, Leaves)}
Level1 == {VDict(f) : f \in PartialFns(SegKeys, Leaves \cup Level0)}

\* d[k] = v for a one-key dict
Single(k, v) == VDict([x \in {k} |-> v])

DeepMappings ==
    {Single(<<"a">>, Single(<<"b">>, Single(<<"a">>, VInt(1)))),
     Single(<<"a">>, Single(<<"b">>, Single(<<"a">>, VInt(0)))),
     Single(<<"a">>, Single(<<"b">>, EmptyDict)),
     Single(<<>>, VInt(1)),
     Single(<<>>, Single(<<>>, VInt(1))),
     Single(<<"a">>, Single(<<>>, VStr("x"))),
     Single(<<"a">>, VStr("")),
     Single(<<"a">>, VStr("x")),
     Single(<<"a">>, VBool(FALSE)),
     Single(<<"a">>, VNone),
     Single(<<"a">>, VList(<<>>)),
     Single(<<"a">>, VList(<<VInt(1)>>)),
     Single(<<"a">>, Single(<<"b">>, VList(<<>>)))}

Mappings == Level1 \cup DeepMappings

InitResolve ==
    /\ InitCommon
    /\ variant = "v1"
    /\ env = NoEnv
    /\ dirMode = "rw"
    /\ rd \in Mappings
    /\ rkeys \in Paths
    /\ rret = NotCalled

CallResolve ==
    /\ rret = NotCalled
    /\ rret' = get_dotted_val_in_dict(rd, rkeys)
    /\ UNCHANGED <<variant, env, dirMode, files, fsWrites, now, pc, exitStatus,
                   self, writer, ctorError, warnings, stdout, lastOutcome,
                   lastCall, nLogOk, notif, phase, lastPlayVars, rd, rkeys>>

NextResolve == CallResolve

SpecResolve == InitResolve /\ [][NextResolve]_vars

(***************************************************************************)
(* CallbackModule.__init__                                                 *)
(***************************************************************************)
\* os.getenv(name, default)
getenv(e, name, default) == IF e[name].set THEN e[name].v ELSE default

\* str.lower() on the flag values the environment can hold
Lower(x) ==
    CASE x = "True" -> "true"
      [] x = "YES"  -> "yes"
      [] x = "Y"    -> "y"
      [] OTHER      -> x

truthy_string(x) == Lower(x) \in {"true", "1", "y", "yes"}

\* a letter outside ASCII, here e with acute accent
UnicodeWordChars == {"U+00E9"}

\* [A-Za-z0-9_]
AsciiWordChars ==
    {"a", "b", "c", "d", "e", "f", "g", "h", "i", "j", "k", "l", "m", "n", "o",
     "p", "q", "r", "s", "t", "u", "v", "w", "x", "y", "z",
     "A", "B", "C", "D", "E", "F", "G", "H", "I", "J", "K", "L", "M", "N", "O",
     "P", "Q", "R", "S", "T", "U", "V", "W", "X", "Y", "Z",
     "0", "1", "2", "3", "4", "5", "6", "7", "8", "9", "_"}

\* \w under re.UNICODE: letters, digits and the underscore, of any script
WordChars == AsciiWordChars \cup UnicodeWordChars

\* what [^\w.,]+ does not match
IsAllowedChar(c) == c \in WordChars \cup {".", ","}

\* __init__ that splits the raw setting as it is
SanitizeNothing(raw) == raw

\* pattern.sub('', audit_vars)
Sanitize(raw) == SelectSeq(raw, IsAllowedChar)

\* the audit_vars attribute __init__ builds from the raw setting: every
\* comma-separated piece of the sanitized string mapped to 0; {} when the
\* setting is absent or empty
ParseAuditVars(rawSetting) ==
    IF rawSetting.set /\ rawSetting.v # <<>>
    THEN LET pieces == Split(Sanitize(rawSetting.v), ",")
         IN [el \in {pieces[i] : i \in 1..Len(pieces)} |-> VInt(0)]
    ELSE <<>>

\* str(e) of the exception writer construction raised
StrOfError(e) ==
    IF e.exc = "Exception" THEN e.msg ELSE <<e.errno, e.filename>>

\* the raw ANSIBLE_AUDITLOG_AUDIT_VARS of the runs explored: "a.b, b"
RawAuditVars == <<"a", ".", "b", ",", " ", "b">>

\* the environments a run can be started in
Envs ==
    {NoEnv,
     [NoEnv EXCEPT !.DISABLED = EnvVal("True")],
     [NoEnv EXCEPT !.DISABLED = EnvVal("YES"), !.FAILMODE = EnvVal("fail")],
     [NoEnv EXCEPT !.DISABLED = EnvVal("false"), !.FAILMODE = EnvVal("fail"),
                   !.LOGNAME_ENABLED = EnvVal("false"),
                   !.LOGDIR = EnvVal("/srv/audit"),
                   !.AUDIT_VARS = EnvVal(RawAuditVars)],
     [NoEnv EXCEPT !.AUDIT_VARS = EnvVal(RawAuditVars), !.FAILMODE = EnvVal("warn"),
                   !.DISABLED = EnvVal("1")]}

\* __init__ that goes on after the warning when fail_mode is 'fail'
InitFailureNeverExits(fail_mode) == FALSE

\* whether __init__ ends the process after a construction failure
InitFailureExits(fail_mode) == fail_mode = "fail"

\* __init__ without the early return of a disabled plugin
SkipsConstructionNever(disabled) == FALSE

\* if self.disabled: ... return None
SkipsConstruction(disabled) == disabled

\* CallbackModule.__init__: reads the settings, returns early when disabled,
\* parses the audited paths, constructs the writer; on failure it disables
\* itself, warns, and in fail mode prints and calls sys.exit(1).
CallbackModule_init ==
    /\ pc = "uninit"
    /\ LET disabled    == truthy_string(getenv(env, "DISABLED", "0"))
           log_logname == IF variant = "v1"
                          THEN truthy_string(getenv(env, "LOGNAME_ENABLED", "1"))
                          ELSE FALSE
           logdir      == getenv(env, "LOGDIR", DefaultLogdir)
           fail_mode   == getenv(env, "FAILMODE", "warn")
           self0       == [self EXCEPT !.disabled = disabled,
                                       !.log_logname = log_logname]
       IN IF SkipsConstruction(disabled)
          THEN /\ self' = self0
               /\ warnings' = Append(warnings, <<"Auditlog has been disabled!">>)
               /\ pc' = "ready"
               /\ UNCHANGED <<writer, ctorError, files, fsWrites, stdout, exitStatus>>
          ELSE \E u \in RunUUIDs, h \in Hostnames :
               /\ Construct(logdir, u, h)
               /\ LET self1 == [self0 EXCEPT
                                   !.has_audit_vars = TRUE,
                                   !.audit_vars = ParseAuditVars(env.AUDIT_VARS)]
                  IN IF ctorError' = NoError
                     THEN /\ self' = [self1 EXCEPT !.has_logger = TRUE]
                          /\ pc' = "ready"
                          /\ UNCHANGED <<warnings, stdout, exitStatus>>
                     ELSE /\ self' = [self1 EXCEPT !.disabled = TRUE]
                          /\ warnings' = Append(warnings,
                                 <<"Unable to initialize audit logging: ",
                                   StrOfError(ctorError')>>)
                          /\ IF InitFailureExits(fail_mode)
                             THEN /\ stdout' = Append(stdout, StrOfError(ctorError'))
                                  /\ exitStatus' = 1
                                  /\ pc' = "exited"
                             ELSE /\ pc' = "ready"
                                  /\ UNCHANGED <<stdout, exitStatus>>
    /\ notif' = [name |-> "__init__"]
    /\ lastOutcome' = NoError
    /\ UNCHANGED <<variant, env, dirMode, now, lastCall, nLogOk, phase,
                   lastPlayVars, rd, rkeys, rret>>

(***************************************************************************)
(* SpecInit: CallbackModule.__init__ under every configuration             *)
(***************************************************************************)
\* characters of a raw setting: word characters, the separators, and two
\* characters that are neither
RawChars == {"a", "7", ".", ",", " ", "U+00E9"}

RawSettings == UNION {[1..n -> RawChars] : n \in 0..MaxRawLen}

InitEnvs ==
    {[NoEnv EXCEPT !.DISABLED = d, !.FAILMODE = f, !.AUDIT_VARS = a] :
        d \in {Unset, EnvVal("1"), EnvVal("false")},
        f \in {Unset, EnvVal("fail")},
        a \in {Unset} \cup {EnvVal(r) : r \in RawSettings}}

InitInit ==
    /\ InitCommon
    /\ variant \in {"v1", "v2"}
    /\ env \in InitEnvs
    /\ dirMode \in DirModes
    /\ rd = EmptyDict /\ rkeys = <<>> /\ rret = NotCalled

NextInit == CallbackModule_init

SpecInit == InitInit /\ [][NextInit]_vars

(***************************************************************************)
(* What the host runtime hands to the handlers                             *)
(***************************************************************************)
Hosts == {"web1"}

Results ==
    {EmptyDict,
     VDict([changed |-> VBool(TRUE),
            invocation |-> VDict([module_name |-> VStr("copy")]),
            msg |-> VStr("boom")])}

FailedResults ==
    {VDict([invocation |-> VDict([module_name |-> VStr("copy")]),
            msg |-> VStr("boom")])}

AsyncResults ==
    {VDict([invocation |-> VDict([module_name |-> VStr("shell")])])}

\* variable names are character strings; this one is looked up whole
AOBO == <<"automation_on_behalf_of">>

VarsProd ==
    VDict([k \in {<<"a">>, <<"b">>} |->
              IF k = <<"a">> THEN Single(<<"b">>, VStr("prod")) ELSE VStr("1.2")])
VarsFlat == Single(<<"a">>, VStr("flat"))

\* a play: its name, its hosts and the variables the runtime gives for it
Plays ==
    [name : {"deploy"}, hosts : {<<>>, <<"web1">>}, vars : {VarsProd},
     serial : {0}, max_fail_pct : {100}]
    \cup
    [name : {"cleanup"}, hosts : {<<>>, <<"web1">>}, vars : {VarsFlat},
     serial : {0}, max_fail_pct : {100}]

PlayContexts ==
    {[remote_user |-> VStr("root"), become |-> VBool(FALSE),
      become_method |-> VStr("sudo"), become_user |-> VNone]}

\* the ansible 1.x playbook object
PlaybooksV1 ==
    {[filename |-> "site.yml", hosts |-> <<"web1">>, host_list |-> "hosts.ini",
      only_tags |-> <<"all">>, skip_tags |-> <<>>, check |-> FALSE,
      global_vars |-> EmptyDict, extra_vars |-> Single(AOBO, VStr("alice")),
      remote_user |-> "root"]}

\* the ansible 2.x playbook object: its file, the hosts of each play, the
\* variables of the first play, the command line options
PlaybooksV2 ==
    {[file_name |-> "site.yml",
      play_hosts |-> <<<<"web1">>, <<"web1", "db1">>>>,
      first_vars |-> VarsFlat,
      options |-> VDict([check |-> VBool(FALSE)]),
      inventory |-> "hosts.ini"]}

\* the statistics object: per host counters
StatsInputs ==
    {[processed |-> [h \in {"web1"} |-> 1], failures |-> <<>>,
      ok |-> [h \in {"web1"} |-> 2], dark |-> <<>>,
      changed |-> [h \in {"web1"} |-> 1], skipped |-> <<>>]}

\* handlers of src/auditlog.py whose body is pass
NoopHandlers ==
    {"on_any", "runner_on_skipped", "runner_on_no_hosts", "runner_on_async_poll",
     "runner_on_file_diff", "playbook_on_notify", "playbook_on_no_hosts_matched",
     "playbook_on_no_hosts_remaining", "playbook_on_vars_prompt",
     "playbook_on_setup", "playbook_on_import_for_host",
     "playbook_on_not_import_for_host"}

(***************************************************************************)
(* Helpers of the handlers                                                 *)
(***************************************************************************)
AttributeError == Raise("AttributeError")

\* a handler ended without reaching the body of log(): nothing is written
NotLogged(outcome) ==
    /\ lastOutcome' = outcome
    /\ UNCHANGED <<files, fsWrites, nLogOk, lastCall>>

\* a plugin whose runner_on_unreachable is one more handler that passes
SelfLoggerLogSkipsUnreachable(event_id, log_entry) ==
    IF event_id = "runner_on_unreachable" THEN NotLogged(NoError)
    ELSE IF self.has_logger THEN LogCall(event_id, log_entry)
    ELSE NotLogged(AttributeError)

\* self.logger.log(event_id, log_entry): AttributeError when the instance has
\* no logger attribute
SelfLoggerLog(event_id, log_entry) ==
    IF self.has_logger THEN LogCall(event_id, log_entry)
    ELSE NotLogged(AttributeError)

\* res.get('invocation', {}).get('module_name', '')
ModuleNameOf(res) ==
    DictGet(DictGet(res, "invocation", EmptyDict), "module_name", VStr(""))

\* ansible's utils.combine_vars(a, b) with the default hash behaviour: the
\* items of a, then those of b over them
combine_vars(a, b) ==
    VDict([k \in DOMAIN a.d \cup DOMAIN b.d |->
              IF k \in DOMAIN b.d THEN b.d[k] ELSE a.d[k]])

\* a host -> counter dict as a Python value
CounterDict(c) == VDict([h \in DOMAIN c |-> VInt(c[h])])

\* stats.summarize(h)
Summarize(stats, h) ==
    LET get(c) == IF h \in DOMAIN c THEN c[h] ELSE 0
    IN [failures |-> get(stats.failures), ok |-> get(stats.ok),
        unreachable |-> get(stats.dark), changed |-> get(stats.changed),
        skipped |-> get(stats.skipped)]

\* the sum of summarize(h)[key] over the hosts
RECURSIVE SumOver(_, _, _)
SumOver(stats, hs, key) ==
    IF hs = {} THEN 0
    ELSE LET h == CHOOSE x \in hs : TRUE
         IN Summarize(stats, h)[key] + SumOver(stats, hs \ {h}, key)

\* hosts.extend(h for h in host_list if h not in hosts), play after play
RECURSIVE AllHosts(_, _, _)
AllHosts(play_hosts, i, hosts) ==
    IF i > Len(play_hosts) THEN hosts
    ELSE LET inHosts(h) == \E j \in 1..Len(hosts) : hosts[j] = h
             notYet(h) == ~inHosts(h)
         IN AllHosts(play_hosts, i + 1, hosts \o SelectSeq(play_hosts[i], notYet))

\* a list of strings as a Python value
StrList(q) == VList([i \in 1..Len(q) |-> VStr(q[i])])

\* the update of self.audit_vars that stores every value under one key
SnapshotFirstOnly(audit_vars, the_vars) ==
    [p \in DOMAIN audit_vars |->
        get_dotted_val_in_dict(the_vars, CHOOSE q \in DOMAIN audit_vars : TRUE)]

\* the update of self.audit_vars that keeps the old value of a path the play
\* does not resolve
SnapshotKeepsResolved(audit_vars, the_vars) ==
    [p \in DOMAIN audit_vars |->
        IF get_dotted_val_in_dict(the_vars, p) = VNone THEN audit_vars[p]
        ELSE get_dotted_val_in_dict(the_vars, p)]

\* for v in self.audit_vars: self.audit_vars[v] = get_dotted_val_in_dict(vars, v)
Snapshot(audit_vars, the_vars) ==
    [p \in DOMAIN audit_vars |-> get_dotted_val_in_dict(the_vars, p)]

(***************************************************************************)
(* The handlers of CallbackModule                                          *)
(***************************************************************************)
HandlerFrame ==
    UNCHANGED <<variant, env, dirMode, now, pc, exitStatus, writer, ctorError,
                warnings, stdout, rd, rkeys, rret>>

\* a play-start handler without the test for empty plays
IsEmptyPlayNever(hosts_in_play) == FALSE

\* len(hosts_in_play) == 0
IsEmptyPlay(hosts_in_play) == Len(hosts_in_play) = 0

\* the runtime delivers a notification of a running playbook
Running == pc = "ready" /\ phase = "running" /\ nLogOk < MaxLines

runner_on_failed ==
    /\ Running
    /\ \E host \in Hosts, res \in FailedResults, ignore_errors \in {FALSE} :
          /\ SelfLoggerLog("runner_on_failed",
                 [inventory_host |-> VStr(host),
                  module_name |-> ModuleNameOf(res),
                  ignore_errors |-> VBool(ignore_errors),
                  msg |-> DictGet(res, "msg", VStr(""))])
          /\ notif' = [name |-> "runner_on_failed", host |-> host]
    /\ UNCHANGED <<self, phase, lastPlayVars>>
    /\ HandlerFrame

runner_on_ok ==
    /\ Running
    /\ \E host \in Hosts, res \in Results :
          /\ SelfLoggerLog("runner_on_ok",
                 [inventory_host |-> VStr(host),
                  status |-> IF Truthy(DictGet(res, "changed", VBool(FALSE)))
                             THEN VStr("changed") ELSE VStr("ok"),
                  module_name |-> ModuleNameOf(res)])
          /\ notif' = [name |-> "runner_on_ok", host |-> host]
    /\ UNCHANGED <<self, phase, lastPlayVars>>
    /\ HandlerFrame

runner_on_error ==
    /\ Running
    /\ \E host \in Hosts, msg \in {"boom"} :
          /\ SelfLoggerLog("runner_on_error",
                 [inventory_host |-> VStr(host), msg |-> VStr(msg)])
          /\ notif' = [name |-> "runner_on_error", host |-> host]
    /\ UNCHANGED <<self, phase, lastPlayVars>>
    /\ HandlerFrame

runner_on_unreachable ==
    /\ Running
    /\ \E host \in Hosts :
          /\ SelfLoggerLog("runner_on_unreachable", [inventory_host |-> VStr(host)])
          /\ notif' = [name |-> "runner_on_unreachable", host |-> host]
    /\ UNCHANGED <<self, phase, lastPlayVars>>
    /\ HandlerFrame

runner_on_async_ok ==
    /\ Running
    /\ \E host \in Hosts, res \in AsyncResults :
          /\ SelfLoggerLog("runner_on_async_ok",
                 [inventory_host |-> VStr(host), module_name |-> ModuleNameOf(res)])
          /\ notif' = [name |-> "runner_on_async_ok", host |-> host]
    /\ UNCHANGED <<self, phase, lastPlayVars>>
    /\ HandlerFrame

runner_on_async_failed ==
    /\ Running
    /\ \E host \in Hosts, res \in AsyncResults :
          /\ SelfLoggerLog("runner_on_async_failed",
                 [inventory_host |-> VStr(host), module_name |-> ModuleNameOf(res)])
          /\ notif' = [name |-> "runner_on_async_failed", host |-> host]
    /\ UNCHANGED <<self, phase, lastPlayVars>>
    /\ HandlerFrame

\* any of NoopHandlers: pass (src/auditlog.py only)
noop_handler ==
    /\ variant = "v1"
    /\ Running
    /\ notif' = [name |-> "pass"]
    /\ NotLogged(NoError)
    /\ UNCHANGED <<self, phase, lastPlayVars>>
    /\ HandlerFrame

\* playbook_on_task_start(name, is_conditional) and
\* v2_playbook_on_task_start(task, is_conditional)
playbook_on_task_start ==
    /\ Running
    /\ \E name \in {"install"} :
          /\ SelfLoggerLog("playbook_on_task_start", [name |-> VStr(name)])
          /\ notif' = [name |-> "playbook_on_task_start"]
    /\ UNCHANGED <<self, phase, lastPlayVars>>
    /\ HandlerFrame

\* src/auditlog.py: playbook_on_start
playbook_on_start ==
    /\ variant = "v1"
    /\ pc = "ready" /\ phase = "new"
    /\ \E pb \in PlaybooksV1 :
          /\ self' = [self EXCEPT
                         !.has_my_vars = TRUE,
                         !.my_vars = combine_vars(pb.global_vars, pb.extra_vars)]
          /\ SelfLoggerLog("playbook_on_start",
                 [playbook |-> VStr(pb.filename),
                  hosts |-> StrList(pb.hosts),
                  inventory |-> VStr(pb.host_list),
                  only_tags |-> StrList(pb.only_tags),
                  skip_tags |-> StrList(pb.skip_tags),
                  check_mode |-> VBool(pb.check),
                  automation_on_behalf_of |-> DictGet(pb.extra_vars, AOBO, VStr("")),
                  remote_user |-> VStr(pb.remote_user),
                  su |-> VNone, su_user |-> VNone,
                  sudo |-> VNone, sudo_user |-> VNone,
                  become |-> VNone, become_method |-> VNone, become_user |-> VNone,
                  USER |-> VStr("alice"), SUDO_USER |-> VNone,
                  logname |-> IF self.log_logname THEN VStr("alice") ELSE VNone])
    /\ notif' = [name |-> "playbook_on_start"]
    /\ phase' = "running"
    /\ UNCHANGED lastPlayVars
    /\ HandlerFrame

\* src/auditlog2.py: v2_playbook_on_start
v2_playbook_on_start ==
    /\ variant = "v2"
    /\ pc = "ready" /\ phase = "new"
    /\ \E pb \in PlaybooksV2 :
          /\ self' = [self EXCEPT !.playbook = pb.file_name]
          /\ SelfLoggerLog("playbook_on_start",
                 [playbook |-> VStr(pb.file_name),
                  hosts |-> StrList(AllHosts(pb.play_hosts, 1, <<>>)),
                  inventory |-> VStr(pb.inventory),
                  options |-> pb.options,
                  USER |-> VStr("alice"), SUDO_USER |-> VNone,
                  realuser |-> VStr("alice"),
                  automation_on_behalf_of |-> DictGet(pb.first_vars, AOBO, VStr(""))])
    /\ notif' = [name |-> "playbook_on_start"]
    /\ phase' = "running"
    /\ UNCHANGED lastPlayVars
    /\ HandlerFrame

\* src/auditlog2.py: set_play_context
set_play_context ==
    /\ variant = "v2"
    /\ pc = "ready" /\ phase = "running"
    /\ \E ctx \in PlayContexts :
          self' = [self EXCEPT !.has_play_context = TRUE, !.play_context = ctx]
    /\ notif' = [name |-> "set_play_context"]
    /\ NotLogged(NoError)
    /\ UNCHANGED <<phase, lastPlayVars>>
    /\ HandlerFrame

\* what a play-start does once it has the variables the_vars of a play with
\* hosts: the snapshot, then the record. self0 is self as the handler has left
\* it so far.
PlayStartBody(self0, the_vars, log_entry) ==
    /\ lastPlayVars' = the_vars
    /\ IF ~self0.has_audit_vars
       THEN /\ self' = self0
            /\ NotLogged(AttributeError)
       ELSE /\ self' = [self0 EXCEPT
                           !.audit_vars = Snapshot(self0.audit_vars, the_vars)]
            /\ SelfLoggerLog("playbook_on_play_start", log_entry)

\* src/auditlog.py: playbook_on_play_start
playbook_on_play_start ==
    /\ variant = "v1"
    /\ Running
    /\ \E play \in Plays :
          /\ notif' = [name |-> "playbook_on_play_start", nhosts |-> Len(play.hosts)]
          /\ IF IsEmptyPlay(play.hosts)
             THEN /\ NotLogged(NoError)
                  /\ UNCHANGED <<self, lastPlayVars>>
             ELSE PlayStartBody(
                    [self EXCEPT !.my_vars = combine_vars(self.my_vars, play.vars)],
                    combine_vars(self.my_vars, play.vars),
                    [name |-> VStr(play.name), remote_user |-> VStr("root"),
                     su |-> VNone, su_user |-> VNone,
                     sudo |-> VNone, sudo_user |-> VNone,
                     become |-> VNone, become_method |-> VNone,
                     become_user |-> VNone,
                     serial |-> VInt(play.serial),
                     max_fail_percentage |-> VInt(play.max_fail_pct),
                     hosts |-> StrList(play.hosts)])
    /\ UNCHANGED phase
    /\ HandlerFrame

\* src/auditlog2.py: v2_playbook_on_play_start
v2_playbook_on_play_start ==
    /\ variant = "v2"
    /\ Running
    /\ self.has_play_context
    /\ \E play \in Plays :
          /\ notif' = [name |-> "playbook_on_play_start", nhosts |-> Len(play.hosts)]
          /\ IF IsEmptyPlay(play.hosts)
             THEN /\ NotLogged(NoError)
                  /\ UNCHANGED <<self, lastPlayVars>>
             ELSE PlayStartBody(self, play.vars,
                    [name |-> VStr(play.name),
                     remote_user |-> self.play_context.remote_user,
                     become |-> self.play_context.become,
                     become_method |-> self.play_context.become_method,
                     become_user |-> self.play_context.become_user,
                     serial |-> VInt(play.serial),
                     max_fail_percentage |-> VInt(play.max_fail_pct),
                     hosts |-> StrList(play.hosts)])
    /\ UNCHANGED phase
    /\ HandlerFrame

\* the record playbook_on_stats builds before it reads self.audit_vars
StatsEntry(stats) ==
    [stats |->
       VDict([summary |->
                VDict([key \in {"failures", "ok", "unreachable", "changed", "skipped"}
                          |-> VInt(SumOver(stats, DOMAIN stats.processed, key))]),
              details |->
                VDict([processed |-> CounterDict(stats.processed),
                       failures |-> CounterDict(stats.failures),
                       ok |-> CounterDict(stats.ok),
                       dark |-> CounterDict(stats.dark),
                       changed |-> CounterDict(stats.changed),
                       skipped |-> CounterDict(stats.skipped)])])]

\* playbook_on_stats that leaves the snapshot out of the record
StatsRecordWithoutVars(entry, audit_vars) == entry

\* log_entry['audit_vars'] = self.audit_vars
StatsRecord(entry, audit_vars) == DictSet(entry, "audit_vars", VDict(audit_vars))

playbook_on_stats ==
    /\ pc = "ready" /\ phase = "running"
    /\ \E stats \in StatsInputs :
          IF ~self.has_audit_vars THEN NotLogged(AttributeError)
          ELSE SelfLoggerLog("playbook_on_stats",
                             StatsRecord(StatsEntry(stats), self.audit_vars))
    /\ notif' = [name |-> "playbook_on_stats"]
    /\ phase' = "finished"
    /\ UNCHANGED <<self, lastPlayVars>>
    /\ HandlerFrame

Init ==
    /\ InitCommon
    /\ variant \in {"v1", "v2"}
    /\ env \in Envs
    /\ dirMode \in DirModes
    /\ rd = EmptyDict /\ rkeys = <<>> /\ rret = NotCalled

Next ==
    \/ CallbackModule_init
    \/ playbook_on_start
    \/ v2_playbook_on_start
    \/ set_play_context
    \/ playbook_on_play_start
    \/ v2_playbook_on_play_start
    \/ playbook_on_task_start
    \/ runner_on_ok
    \/ runner_on_failed
    \/ runner_on_error
    \/ runner_on_unreachable
    \/ runner_on_async_ok
    \/ runner_on_async_failed
    \/ noop_handler
    \/ playbook_on_stats
    \/ RevokeAccess

Spec == Init /\ [][Next]_vars

(***************************************************************************)
(* Properties                                                              *)
(***************************************************************************)
\* the lines of the run's logfile
Lines == IF writer.logfile.set THEN Content(files, writer.logfile.path) ELSE <<>>

LastLine == Lines[Len(Lines)]

\* q is a prefix of r
IsPrefix(q, r) == Len(q) <= Len(r) /\ SubSeq(r, 1, Len(q)) = q

\* the value reached by following the first n segments from mapping m
RECURSIVE Reach(_, _, _)
Reach(m, segs, n) ==
    IF n = 0 THEN m
    ELSE LET c == Reach(m, segs, n - 1)
         IN IF c.t = "dict" /\ segs[n] \in DOMAIN c.d THEN c.d[segs[n]]
            ELSE [t |-> "nothing"]

\* the value the dotted path denotes in m: the terminal value when every
\* intermediate segment maps to a mapping and the last one to a truthy value,
\* no value otherwise
Denoted(m, path) ==
    LET segs == Split(path, ".")
        last == Reach(m, segs, Len(segs))
    IN IF /\ \A n \in 1..(Len(segs) - 1) : Reach(m, segs, n).t = "dict"
          /\ last.t # "nothing"
          /\ Truthy(last)
       THEN last
       ELSE VNone

\* C1: a log(e, f) call that returns has appended exactly one line (the file
\* holds one line per successful call), and that line is an object with
\* event = e, uuid = the writer's run id, controlhost = the writer's hostname and
\* timestamp = the clock at the call; no envelope key holds a value the caller
\* supplied, and every other key holds what the caller passed.
C1_EnvelopeAlwaysWins ==
    /\ Len(Lines) = nLogOk
    /\ (lastCall.made /\ lastCall.err = NoError) =>
          LET obj == JsonLoads(LastLine)
          IN /\ DOMAIN obj = DOMAIN lastCall.arg \cup EnvelopeKeys
             /\ obj["event"] = VStr(lastCall.event_id)
             /\ obj["uuid"] = VStr(writer.uuid)
             /\ obj["controlhost"] = VStr(writer.hostname)
             /\ obj["timestamp"] = [t |-> "isostr", at |-> lastCall.ts]
             /\ \A k \in EnvelopeKeys \cap DOMAIN lastCall.arg :
                   obj[k] # lastCall.arg[k]
             /\ \A k \in DOMAIN lastCall.arg \ EnvelopeKeys :
                   obj[k] = lastCall.arg[k]

\* a second successful call whose mapping held all four envelope keys
C1_Witness ==
    /\ lastCall.made /\ lastCall.err = NoError
    /\ EnvelopeKeys \subseteq DOMAIN lastCall.arg
    /\ Len(Lines) = 2

\* C2: every line of the logfile carries the uuid and the hostname the writer
\* was constructed with, whatever calls were made and whenever.
C2_SameRunIdentity ==
    \A i \in 1..Len(Lines) :
        /\ JsonLoads(Lines[i])["uuid"] = VStr(writer.uuid)
        /\ JsonLoads(Lines[i])["controlhost"] = VStr(writer.hostname)

\* two lines written at different instants for different events
C2_Witness ==
    /\ Len(Lines) >= 2
    /\ JsonLoads(Lines[1])["event"] # JsonLoads(Lines[2])["event"]
    /\ JsonLoads(Lines[1])["timestamp"] # JsonLoads(Lines[2])["timestamp"]

\* C6: constructing a writer on a directory that denies access (the probe fails
\* with EACCES) raises the access-denied error naming the directory, sets no
\* logfile path and leaves no file in the directory.
C6_DeniedDirectory ==
    (notif.name = "JsonAuditLogger" /\ dirMode = "denied") =>
        /\ pc = "failed"
        /\ ctorError.t = "raise"
        /\ ctorError.exc = "Exception"
        /\ ctorError.msg = <<"Access denied to ", notif.logdir>>
        /\ ~writer.logfile.set
        /\ files = <<>>

C6_Witness ==
    /\ notif.name = "JsonAuditLogger" /\ dirMode = "denied"
    /\ notif.logdir = "/srv/audit"
    /\ pc = "failed"

\* C7: constructing a writer on a directory that is missing, or whose probe
\* fails for another reason than EACCES, raises the OS error with the directory
\* as its filename, and the logfile path is never set.
C7_MissingDirectory ==
    (notif.name = "JsonAuditLogger" /\ dirMode \in {"missing", "full"}) =>
        /\ pc = "failed"
        /\ ctorError.t = "raise"
        /\ ctorError.exc = "OSError"
        /\ ctorError.errno = ErrnoOf(dirMode)
        /\ ctorError.filename = <<notif.logdir>>
        /\ ~writer.logfile.set
        /\ files = <<>>

C7_Witness ==
    /\ notif.name = "JsonAuditLogger" /\ dirMode = "missing"
    /\ pc = "failed"
    /\ ctorError.errno = "ENOENT"

C8_WitnessNonMapping ==
    /\ rret = VNone
    /\ rkeys = <<"a", ".", "b">>
    /\ <<"a">> \in DOMAIN rd.d
    /\ rd.d[<<"a">>] = VInt(1)

\* the failure mode the run was configured with
FailMode == getenv(env, "FAILMODE", "warn")

\* audit logging was disabled by configuration
DisabledByConfig == truthy_string(getenv(env, "DISABLED", "0"))

\* C3: with audit logging disabled by configuration nothing is ever written to
\* the file system, and every notification delivered to the plugin returns
\* without raising.
C3_DisabledRunAcceptsAll ==
    (DisabledByConfig /\ pc # "uninit") =>
        /\ fsWrites = 0
        /\ files = <<>>
        /\ lastOutcome = NoError

\* C4: when writer construction fails in fail mode, initialization ends the
\* process with a non-zero status, no logfile exists, and no notification is
\* handled afterwards.
C4_FailModeAborts ==
    (pc # "uninit" /\ ctorError # NoError /\ FailMode = "fail") =>
        /\ pc = "exited"
        /\ exitStatus > 0
        /\ files = <<>>
        /\ nLogOk = 0
        /\ notif.name = "__init__"
        /\ phase = "new"

C4_Witness ==
    /\ pc = "exited"
    /\ exitStatus = 1
    /\ ctorError # NoError
    /\ FailMode = "fail"

\* C5: when writer construction fails in warn mode the process goes on with
\* the plugin disabled, and every later notification returns without raising
\* and writes nothing.
C5_WarnModeContinues ==
    (pc # "uninit" /\ ctorError # NoError /\ FailMode # "fail") =>
        /\ pc = "ready"
        /\ exitStatus = -1
        /\ self.disabled
        /\ files = <<>>
        /\ nLogOk = 0
        /\ lastOutcome = NoError

C10_AppendOnly ==
    [][/\ \A f \in DOMAIN files :
             f \in DOMAIN files' /\ IsPrefix(files[f], files'[f])
       /\ DOMAIN files' \subseteq
             (IF writer'.logfile.set THEN {writer'.logfile.path} ELSE {})
       /\ Len(Lines') = nLogOk']_vars

\* a third line appended after two
C10_Witness ==
    /\ Len(Lines) = 3
    /\ nLogOk = 3
    /\ notif.name = "playbook_on_stats"

\* a step that is one call of JsonAuditLogger.log
IsLogCall == lastCall'.flip # lastCall.flip

\* C11: a log(e, f) call leaves the mapping f with the keys and values it had
\* before the call, and leaves the writer's uuid, hostname and logfile path as
\* they were.
C11_LogChangesOnlyFile ==
    [][IsLogCall => /\ lastCall'.argAfter = lastCall'.arg
                    /\ writer' = writer]_vars

\* C12: a log call that returns has appended exactly one line, the serialized
\* record, to the content the file had; a log call that raises (the record
\* cannot be serialized, or the file cannot be opened for append) leaves the
\* files of the directory exactly as they were.
C12_OneLineOrNothing ==
    [][IsLogCall =>
          IF lastCall'.err = NoError
          THEN /\ Lines' = Append(Lines, JsonDumps(lastCall'.argAfter))
               /\ DOMAIN files' = {writer.logfile.path}
          ELSE files' = files]_vars

\* a call failed on an unserializable record after one line was written
C12_Witness ==
    /\ lastCall.made /\ lastCall.err # NoError
    /\ lastCall.err.exc = "TypeError"
    /\ Len(Lines) = 1

\* a call failed on opening the file after one line was written
C12_WitnessOpen ==
    /\ lastCall.made /\ lastCall.err # NoError
    /\ lastCall.err.exc = "IOError"
    /\ Len(Lines) = 1

\* C16: a writer that was constructed and has not yet completed a log call has
\* no logfile and has left no file of the probe in the directory; once a log
\* call has returned, the logfile exists and is the only file.
C16_LazyCreation ==
    /\ nLogOk = 0 => files = <<>>
    /\ nLogOk > 0 => DOMAIN files = {writer.logfile.path}

\* a constructed writer whose only call so far failed: still no file
C16_Witness ==
    /\ pc = "ready" /\ writer.logfile.set
    /\ lastCall.made /\ lastCall.err # NoError
    /\ nLogOk = 0
    /\ fsWrites = 1

\* the notifications of the audit surface, by the event name they are logged under
AuditedEvents ==
    {"playbook_on_start", "playbook_on_play_start", "playbook_on_task_start",
     "runner_on_ok", "runner_on_failed", "runner_on_error", "runner_on_unreachable",
     "runner_on_async_ok", "runner_on_async_failed", "playbook_on_stats"}

\* C13: while the plugin is not disabled, the handler of every audited
\* notification (a play-start only when the play has hosts) makes one log call,
\* under the event name of the notification, which adds at most one line; the
\* handler of a notification outside the audit surface makes none.
C13_OneLogPerNotification ==
    [][/\ (/\ notif'.name \in AuditedEvents
           /\ ~self'.disabled
           /\ notif'.name = "playbook_on_play_start" => notif'.nhosts > 0) =>
             /\ IsLogCall
             /\ lastCall'.made
             /\ lastCall'.event_id = notif'.name
             /\ nLogOk' \in {nLogOk, nLogOk + 1}
             /\ Len(Lines') = Len(Lines) + (nLogOk' - nLogOk)
       /\ notif'.name = "pass" => (~IsLogCall /\ files' = files)]_vars

\* an unreachable host recorded as the third event of an enabled run
C13_Witness ==
    /\ ~self.disabled
    /\ notif.name = "runner_on_unreachable"
    /\ lastCall.made /\ lastCall.event_id = "runner_on_unreachable"
    /\ lastCall.err = NoError
    /\ Len(Lines) = 3

\* C14: when the append of a handler's log call fails, the failure is reported
\* through the warning channel and, unless the failure mode is fail, the
\* handler returns normally.
C14_AppendFailureWarned ==
    (/\ notif.name \in AuditedEvents
     /\ lastCall.made /\ lastCall.event_id = notif.name
     /\ lastCall.err # NoError /\ lastCall.err.exc = "IOError") =>
        /\ warnings # <<>>
        /\ FailMode # "fail" => lastOutcome = NoError

\* C15: the play-start of a play without hosts makes no log call, leaves the
\* files as they are and leaves the audited-variable snapshot as it was.
C15_EmptyPlaySkipped ==
    [][(notif'.name = "playbook_on_play_start" /\ notif'.nhosts = 0) =>
          /\ ~IsLogCall
          /\ files' = files
          /\ self'.has_audit_vars = self.has_audit_vars
          /\ self'.audit_vars = self.audit_vars
          /\ lastOutcome' = NoError]_vars

\* an empty play announced after a play that gave b = 1.2
C15_Witness ==
    /\ notif.name = "playbook_on_play_start" /\ notif.nhosts = 0
    /\ self.has_audit_vars
    /\ <<"b">> \in DOMAIN self.audit_vars
    /\ self.audit_vars[<<"b">>] = VStr("1.2")
    /\ Len(Lines) = 2

\* the value configuration gives every path before any play has started
Placeholder == VInt(0)

\* C18: at any time every configured path holds the value it denotes in the
\* variable mapping of the most recent play-start that had hosts (no value when
\* that play does not resolve it, whatever an earlier play gave), or the
\* placeholder when there was none; the run-statistics record carries exactly
\* these values as its audit_vars.
C18_LastPlayWins ==
    LET expected(p) == IF lastPlayVars = NotCalled THEN Placeholder
                       ELSE Denoted(lastPlayVars, p)
    IN /\ self.has_audit_vars =>
             \A p \in DOMAIN self.audit_vars : self.audit_vars[p] = expected(p)
       /\ (notif.name = "playbook_on_stats" /\ lastOutcome = NoError) =>
             JsonLoads(LastLine)["audit_vars"] =
                VDict([p \in DOMAIN self.audit_vars |-> expected(p)])

\* statistics after the play deploy (b = 1.2) and then the play cleanup, whose
\* variables do not define b
C18_Witness ==
    /\ variant = "v2"
    /\ notif.name = "playbook_on_stats" /\ lastOutcome = NoError
    /\ Len(Lines) = 4
    /\ JsonLoads(Lines[2])["event"] = VStr("playbook_on_play_start")
    /\ JsonLoads(Lines[2])["name"] = VStr("deploy")
    /\ JsonLoads(Lines[3])["event"] = VStr("playbook_on_play_start")
    /\ JsonLoads(Lines[3])["name"] = VStr("cleanup")
    /\ lastPlayVars = VarsFlat
    /\ <<"b">> \in DOMAIN self.audit_vars
    /\ JsonLoads(Lines[4])["audit_vars"].d[<<"b">>] = VNone

\* statistics of a run none of whose plays had hosts
C18_WitnessPlaceholder ==
    /\ notif.name = "playbook_on_stats" /\ lastOutcome = NoError
    /\ lastPlayVars = NotCalled
    /\ <<"b">> \in DOMAIN self.audit_vars
    /\ JsonLoads(LastLine)["audit_vars"].d[<<"b">>] = Placeholder

\* C19: every record goes to the end of the logfile: a step that adds a line
\* keeps the lines written before it in place and adds, as the last line, the
\* record of the notification just handled, with its event name and the
\* fields its handler passed.
C19_DeliveryOrder ==
    [][Lines' # Lines =>
          /\ Len(Lines') = Len(Lines) + 1
          /\ SubSeq(Lines', 1, Len(Lines)) = Lines
          /\ LET obj == JsonLoads(Lines'[Len(Lines')])
             IN /\ obj["event"] = VStr(notif'.name)
                /\ \A k \in DOMAIN lastCall'.arg \ EnvelopeKeys :
                      obj[k] = lastCall'.arg[k]
                /\ DOMAIN obj = DOMAIN lastCall'.arg \cup EnvelopeKeys]_vars

\* run-start, task-start and a host result, in the order they were delivered
C19_Witness ==
    /\ Len(Lines) = 3
    /\ JsonLoads(Lines[1])["event"] = VStr("playbook_on_start")
    /\ JsonLoads(Lines[2])["event"] = VStr("playbook_on_task_start")
    /\ JsonLoads(Lines[3])["event"] = VStr("runner_on_ok")

\* the characters of s that are in the set C, in their order
RECURSIVE KeepOnly(_, _)
KeepOnly(s, C) ==
    IF s = <<>> THEN <<>>
    ELSE (IF Head(s) \in C THEN <<Head(s)>> ELSE <<>>) \o KeepOnly(Tail(s), C)

\* the comma-separated pieces of s: the stretches without a comma that reach
\* from the start or a comma to the next comma or the end
PiecesOf(s) ==
    {SubSeq(s, ij[1], ij[2]) :
        ij \in {x \in (1..(Len(s) + 1)) \X (0..Len(s)) :
                  /\ x[1] <= x[2] + 1
                  /\ x[1] = 1 \/ s[x[1] - 1] = ","
                  /\ x[2] = Len(s) \/ s[x[2] + 1] = ","
                  /\ \A k \in x[1]..x[2] : s[k] # ","}}

\* the configured paths when the characters of C are the ones kept
PathsKeeping(setting, C) ==
    IF setting.set /\ setting.v # <<>>
    THEN [p \in PiecesOf(KeepOnly(setting.v, C)) |-> Placeholder]
    ELSE <<>>

\* C17 as stated: the configured paths are the comma-separated pieces of the
\* raw setting once every character outside [A-Za-z0-9_.,] is discarded, each
\* with the placeholder; none when the setting is empty or absent.
C17_AsciiPathsOnly ==
    (pc # "uninit" /\ self.has_audit_vars) =>
        self.audit_vars = PathsKeeping(env.AUDIT_VARS, AsciiWordChars \cup {".", ","})

\* C17 amended: the configured paths are the comma-separated pieces of the raw
\* setting once every character that is neither a letter, digit or underscore
\* of any script nor "." nor "," is discarded, each with the placeholder; none
\* when the setting is empty or absent.
C17_WordCharPathsOnly ==
    (pc # "uninit" /\ self.has_audit_vars) =>
        self.audit_vars = PathsKeeping(env.AUDIT_VARS, WordChars \cup {".", ","})

\* a setting with a separator, a blank and a letter outside ASCII: two paths,
\* one of them empty
C17_Witness ==
    /\ pc = "ready" /\ self.has_audit_vars
    /\ env.AUDIT_VARS = EnvVal(<<" ", "U+00E9", ",">>)
    /\ DOMAIN self.audit_vars = {<<"U+00E9">>, <<>>}

\* C20: a plugin disabled by configuration never constructs a writer: no
\* probe is made, nothing is printed, and the process is not ended, whatever
\* the failure mode and the state of the log directory.
C20_DisabledBeforeFailMode ==
    (pc # "uninit" /\ DisabledByConfig) =>
        /\ pc = "ready"
        /\ exitStatus = -1
        /\ writer = NoWriter
        /\ ctorError = NoError
        /\ fsWrites = 0
        /\ files = <<>>
        /\ stdout = <<>>
        /\ self.disabled

\* disabled, fail mode, and a log directory that does not exist
C20_Witness ==
    /\ pc = "ready"
    /\ DisabledByConfig
    /\ FailMode = "fail"
    /\ dirMode = "missing"
    /\ warnings = <<<<"Auditlog has been disabled!">>>>

====
